---- MODULE Spec2Model ----
(***************************************************************************)
(* Model of the ScyllaDB backfill service (src/proto_backfill_main.py):    *)
(* ScyllaBackfillService.run_backfill with copy_table_data, the checkpoint *)
(* store, validate_data_integrity_detailed, and process_batch_parallel.    *)
(***************************************************************************)
EXTENDS Integers, Sequences, FiniteSets, TLC

\* ------------------------------------------------------------------ bounds
NumTables == 3
MaxRows == 21
MaxBatch == 2
MaxFaults == 1
MaxK == 3
MaxParB == 2
MaxWorkers == 2
MaxValRows == 3
MaxOps == 3
MaxRerunRows == 3
MaxTime == 3
MaxCount == 3

\* ------------------------------------------------------- program constants
CheckpointEvery == 10
SampleSize == 100

VARIABLES
    \* configuration
    tables,          \* the list handed to run_backfill
    batch_size,      \* config['batch_size']
    enable_resume,   \* self.enable_resume
    \* service state
    running,         \* self.running
    stats,           \* self.stats (tables_processed, records_processed, errors)
    \* run_backfill's position
    pc, idx, success, runResult,
    \* copy_table_data's locals
    checkpoint, total_records, processed_count, batch_num, current_batch, cursor,
    \* the stores
    src, tgt, ckptFiles, clock,
    \* observation of the run (what was done, in order)
    hist,
    \* the rest of the service object, and the validator's local
    enable_parallel, \* self.enable_parallel
    src_service,     \* self.src_service: "unset", "open", "closed"
    tgt_service,     \* self.tgt_service: "unset", "open", "closed"
    sample_size,     \* validate_data_integrity_detailed's sample_size (0 outside of it)
    \* copy_table_data's timing
    table_start_time, \* time.time() when the copy was entered (line 97)
    metrics,          \* the snapshot get_performance_metrics returned (line 186), if any
    \* process_batch_parallel: its arguments, its locals, the pool, what was done
    batches,         \* batches[i] = the number of rows of batch i
    max_workers,     \* self.max_workers
    failAt,          \* failAt[i] = the row of batch i whose write raises (0: none)
    ppc,             \* position of the calling thread
    future,          \* future[i]: "new", "queued", "running", "done", "failed", "dropped"
    batch_processed, \* process_single_batch's local, per batch
    consumed,        \* the futures as_completed has yielded
    par_count,       \* process_batch_parallel's processed_count
    pobs             \* observation: attempts, writes, logged failures, pool fault

svcVars == <<tables, batch_size, enable_resume, running, stats, pc, idx, success, runResult>>
copyVars == <<checkpoint, total_records, processed_count, batch_num, current_batch, cursor>>
storeVars == <<src, tgt, ckptFiles, clock>>
connVars == <<src_service, tgt_service>>
auxVars == <<enable_parallel, connVars, sample_size>>
timeVars == <<table_start_time, metrics>>
runVars == <<svcVars, copyVars, storeVars, hist, auxVars, timeVars>>
parVars == <<batches, max_workers, failAt, ppc, future, batch_processed, consumed,
             par_count, pobs>>

\* ----------------------------------------------------------------- tables
\* A table is a function from primary keys to values; a row is <<key, value>>.
EmptyTable == [k \in {} |-> 0]

\* The keys of S between lo and hi, ascending.
RECURSIVE SortedIn(_, _, _)
SortedIn(S, lo, hi) ==
    IF lo > hi THEN <<>>
    ELSE IF lo = hi THEN (IF lo \in S THEN <<lo>> ELSE <<>>)
    ELSE LET mid == (lo + hi) \div 2
         IN SortedIn(S, lo, mid) \o SortedIn(S, mid + 1, hi)

SortedKeys(S) ==
    IF S = {} THEN <<>>
    ELSE SortedIn(S, CHOOSE x \in S : \A y \in S : x <= y,
                     CHOOSE x \in S : \A y \in S : x >= y)

\* SELECT * FROM table: the rows in the store's enumeration order.
Rows(T) == LET ks == SortedKeys(DOMAIN T) IN [i \in 1..Len(ks) |-> <<ks[i], T[ks[i]]>>]

\* A table of n rows with keys 1..n, all values 1 but that of key d (if any), 2.
ValTable(n, d) == [k \in 1..n |-> IF k = d THEN 2 ELSE 1]

\* SELECT COUNT(*) FROM table
Count(T) == Cardinality(DOMAIN T)

\* Faulty variant: writing a key that is already there loses the row
UpsertToggles(T, row) ==
    IF row[1] \in DOMAIN T THEN [k \in DOMAIN T \ {row[1]} |-> T[k]]
    ELSE [k \in DOMAIN T \cup {row[1]} |-> IF k = row[1] THEN row[2] ELSE T[k]]

\* INSERT INTO table: an upsert keyed by primary key.
Upsert(T, row) == [k \in DOMAIN T \cup {row[1]} |-> IF k = row[1] THEN row[2] ELSE T[k]]

RECURSIVE InsertAll(_, _)
InsertAll(T, rows) ==
    IF rows = <<>> THEN T ELSE InsertAll(Upsert(T, Head(rows)), Tail(rows))

Prefix(s, n) == SubSeq(s, 1, n)

RECURSIVE SeqSum(_)
SeqSum(q) == IF q = <<>> THEN 0 ELSE Head(q) + SeqSum(Tail(q))

\* ------------------------------------------------------- checkpoint store
Checkpoint(t, p, total, b, ts) ==
    [table_name |-> t, processed_count |-> p, total_count |-> total,
     timestamp |-> ts, batch_size |-> b]

\* The content of a checkpoint file is what json.dump wrote: an object with the
\* dataclass's fields and their values. A file that something else wrote can be
\*   "unparsable"  not JSON text (json.load raises)
\*   "fields"      JSON, but not an object with exactly the five fields
\*                 (Checkpoint(**data) raises)
\*   "types"       an object with the five fields, processed_count being a string
\*                 (Checkpoint(**data) accepts it: a dataclass checks no type)
\* which the field "form" tells; the other fields are then what the file would hold
\* if it were well formed.
json_dump(rec) == [f \in DOMAIN rec \cup {"form"} |-> IF f = "form" THEN "object" ELSE rec[f]]

FileForms == {"object", "unparsable", "fields", "types"}

\* lines 231-233: json.load and Checkpoint(**data) both return
Parses(content) == content.form \in {"object", "types"}

\* line 108: '{checkpoint.processed_count:,}' can be formatted
Formattable(ck) == ck.form = "object"

\* Faulty variant: an existing file is left as it is
save_checkpointOnce(files, t, p, total, b, ts) ==
    [f \in DOMAIN files \cup {t} |->
        IF f = t /\ t \notin DOMAIN files THEN json_dump(Checkpoint(t, p, total, b, ts))
        ELSE files[f]]

\* save_checkpoint: writes <checkpoint_dir>/<table>.json, replacing any prior file.
save_checkpoint(files, t, p, total, b, ts) ==
    [f \in DOMAIN files \cup {t} |->
        IF f = t THEN json_dump(Checkpoint(t, p, total, b, ts)) ELSE files[f]]

\* load_checkpoint: the record when the file exists, else None.
HasCheckpoint(files, t) == t \in DOMAIN files
load_checkpoint(files, t) ==
    IF t \in DOMAIN files /\ Parses(files[t]) THEN <<files[t]>> ELSE <<>>

\* clear_checkpoint: removes the file when it exists.
clear_checkpoint(files, t) == [f \in DOMAIN files \ {t} |-> files[f]]

\* ------------------------------------------------------------- conditions
\* Faulty variant: the batch is flushed one row late
BatchFullOffByOne(batch, b) == Len(batch) > b

\* line 147: the batch is full
BatchFull(batch, b) == Len(batch) >= b

\* Faulty variant: the count runs one row ahead of the writes
CountAfterFlushAhead(count, batch) == count + Len(batch) + 1

\* lines 153 and 172: processed_count += len(current_batch), after the batch's
\* last INSERT returned
CountAfterFlush(count, batch) == count + Len(batch)

\* Faulty variant: the flushed rows stay in the batch
BatchAfterFlushKept(batch) == batch

\* line 165: the batch is replaced by an empty list after its flush
BatchAfterFlush(batch) == <<>>

\* Faulty variant: a checkpoint is saved after every batch
PeriodicSaveDueAlways(resume, n) == resume

\* line 157: save a checkpoint every 10 batches
PeriodicSaveDue(resume, n) == resume /\ n % CheckpointEvery = 0

\* line 178: save after the trailing batch
FinalSaveDue(resume) == resume

\* line 196: clear on success
ClearDue(resume) == resume

\* line 115: nothing to copy
NoData(total) == total = 0

\* Faulty variant: the flag is never looked at
ShutdownIgnored(r) == FALSE

\* line 371: shutdown requested
ShutdownRequested(r) == ~r


\* ---------------------------------------------------------------- validator
Min(a, b) == IF a <= b THEN a ELSE b

\* lines 290-293: zip() stops at the shorter sample; any differing pair is a mismatch
SamplesAgree(ss, ts) == \A i \in 1..Min(Len(ss), Len(ts)) : ss[i] = ts[i]

\* validate_data_integrity_detailed, lines 275-296 (no query failure)
validate_data_integrity_detailed(S, T) ==
    LET src_count == Count(S)
        tgt_count == Count(T)
        size == Min(SampleSize, src_count)
    IN IF src_count # tgt_count THEN FALSE
       ELSE IF size > 0
            THEN SamplesAgree(Prefix(Rows(S), size), Prefix(Rows(T), Min(size, Count(T))))
            ELSE TRUE

\* lines 285-286: SELECT * ... LIMIT n, as a list
Sample(T, n) == Prefix(Rows(T), Min(n, Count(T)))

\* what one call of the validator did, as seen from outside
NoVobs ==
    [called |-> FALSE, src_count |-> 0, tgt_count |-> 0, sampled |-> FALSE,
     src_sample |-> <<>>, tgt_sample |-> <<>>, verdict |-> FALSE, raised |-> FALSE]

\* ------------------------------------------------------------------ initial
\* The file an earlier run, or something else, left behind: its form and progress.
StaleFile(t, k) == [json_dump(Checkpoint(t, k[2], 2, 1, 0)) EXCEPT !.form = k[1]]
StaleCheckpoint(t) == StaleFile(t, <<"object", 1>>)
WellFormedStale == {<<"object", 1>>}
AnyStale ==
    {<<"object", 0>>, <<"object", 1>>, <<"object", 2>>,
     <<"unparsable", 1>>, <<"fields", 1>>, <<"types", 1>>}

\* The checkpoint directory is clean, or an earlier failed run left the
\* checkpoints of its tables behind.
StaleChoices(n) == {{}, 1..n}

FreshHist ==
    [attempted |-> <<>>, validated |-> <<>>, res |-> <<>>,
     wlog |-> <<>>, flushes |-> <<>>, ckptOps |-> <<>>,
     fault |-> "none", ioFault |-> FALSE, hostFault |-> FALSE, ret |-> "none",
     mutated |-> FALSE, mutations |-> 0, faults |-> 0,
     sigAttempted |-> -1, sigPc |-> "none", initFailed |-> FALSE, closeFault |-> "none",
     errorsAtStart |-> 0, ckptAtStart |-> <<>>, ckpt0 |-> <<>>, vobs |-> NoVobs,
     reg |-> <<>>, lastOp |-> <<"none", 0>>, ops |-> 0, tgtAtStart |-> EmptyTable]

\* The state after __init__ (lines 43-65), for a list of n tables (n in ns) whose
\* row counts are drawn from szs.
InitWith(ns, szs, kinds) ==
    /\ \E n \in ns :
         /\ tables = [i \in 1..n |-> i]
         /\ \E sizes \in [1..n -> szs] :
              src = [t \in 1..n |-> [k \in 1..sizes[t] |-> 1]]
         /\ tgt = [t \in 1..n |-> EmptyTable]
         /\ \E stale \in StaleChoices(n), k \in kinds :
              ckptFiles = [t \in stale |-> StaleFile(t, k)]
    /\ batch_size \in 1..MaxBatch
    /\ enable_resume \in BOOLEAN
    /\ running = TRUE
    /\ stats = [tables_processed |-> 0, records_processed |-> 0, errors |-> 0]
    /\ pc = "init" /\ idx = 1 /\ success = FALSE /\ runResult = "none"
    /\ checkpoint = <<>> /\ total_records = 0 /\ processed_count = 0
    /\ batch_num = 0 /\ current_batch = <<>> /\ cursor = 0
    /\ clock = 1
    /\ src_service = "unset" /\ tgt_service = "unset"
    /\ sample_size = 0
    /\ table_start_time = 0 /\ metrics = <<>>
    /\ hist = [FreshHist EXCEPT !.ckpt0 = ckptFiles, !.res = [t \in DOMAIN tables |-> "none"]]

\* A run over a list of tables, each of them empty or holding one row: the cases
\* run_backfill tells apart. The row counts vary under CopySpec.
EmptyOrNot == {0, 1}
InitRun == InitWith(1..NumTables, EmptyOrNot, WellFormedStale) /\ enable_parallel = TRUE

\* A run over one table of up to MaxRows rows. What a file left behind holds is
\* varied where it is read, that is, with resume enabled.
InitCopy ==
    /\ InitWith({1}, 0..MaxRows, AnyStale)
    /\ ~enable_resume => \A t \in DOMAIN ckptFiles : ckptFiles[t] = StaleCheckpoint(t)
    /\ enable_parallel = TRUE

\* ------------------------------------------------------------ run_backfill
CurTable == tables[idx]

\* The environment's disturbances (a query, a write or a checkpoint file operation
\* that raises, a concurrent write to the source) are counted, and at most
\* MaxFaults of them happen in one run.
Outcomes == IF hist.faults < MaxFaults THEN BOOLEAN ELSE {TRUE}
WritePoints(n) == IF hist.faults < MaxFaults THEN 0..n ELSE {n}
OutcomesAfter(n) == IF n < MaxFaults THEN BOOLEAN ELSE {TRUE}

\* cleanup's two close() calls (lines 401-404) with n disturbances used up: the
\* outcome of each call. A first call that raises leaves the second one not made.
CloseOutcomes(n) == {o \in OutcomesAfter(n) \X OutcomesAfter(n) : ~o[1] => o[2]}
CloseFaults(o) == IF o[1] /\ o[2] THEN 0 ELSE 1
\* which close() call raised, if one was made and raised
CloseRaised(s, t, o) ==
    IF s = "open" /\ ~o[1] THEN "src"
    ELSE IF t = "open" /\ ~o[2] THEN "tgt"
    ELSE "none"

\* cleanup, lines 399-407: both close() calls are in one try block, so that the
\* target's close() is reached only when the source's did not raise. o[1] and o[2]
\* tell whether the source's and the target's close() return.
cleanup(s, t, o) ==
    <<IF s = "open" /\ o[1] THEN "closed" ELSE s,
      IF t = "open" /\ (s = "open" => o[1]) /\ o[2] THEN "closed" ELSE t>>

\* Faulty variant: a run with a failed table is reported as failed
LoopResultStrict(st) == IF st.errors > 0 THEN "failure" ELSE "success"

\* line 391: the loop was left without an exception, whatever the statistics say
LoopResult(st) == "success"

\* _signal_handler, lines 67-69
SignalHandler ==
    /\ pc # "done"
    /\ running' = FALSE
    /\ hist' = IF hist.sigAttempted = -1
               THEN [hist EXCEPT !.sigAttempted = Len(hist.attempted),
                                  !.sigPc = IF pc \in {"init", "loop"} THEN "between" ELSE "table"]
               ELSE hist
    /\ UNCHANGED <<tables, batch_size, enable_resume, stats, pc, idx, success, runResult,
                   copyVars, storeVars>>
    /\ UNCHANGED auxVars
    /\ UNCHANGED timeVars
    /\ UNCHANGED parVars

\* initialize_services, lines 71-94, as called at lines 362-364 (with cleanup, 396-397)
InitializeServices ==
    /\ pc = "init"
    /\ \E ok \in Outcomes :
         IF ok
         THEN /\ pc' = "loop"
              /\ src_service' = "open" /\ tgt_service' = "open"
              /\ UNCHANGED <<runResult, hist>>
         ELSE \* a constructor raises: the source's (line 74), or the target's (line 82)
              \* with the source already connected; False is returned, cleanup runs
              \E opened \in {"unset", "open"}, o \in CloseOutcomes(hist.faults + 1) :
              LET c == cleanup(opened, "unset", o) IN
              /\ pc' = "done" /\ runResult' = "failure"
              /\ src_service' = c[1] /\ tgt_service' = c[2]
              /\ hist' = [hist EXCEPT !.faults = @ + 1 + CloseFaults(o),
                                      !.initFailed = TRUE,
                                      !.closeFault = CloseRaised(opened, "unset", o)]
    /\ UNCHANGED <<tables, batch_size, enable_resume, running, stats, idx, success,
                   copyVars, storeVars>>
    /\ UNCHANGED <<enable_parallel, sample_size>>
    /\ UNCHANGED timeVars
    /\ UNCHANGED parVars

\* lines 370-376: the next table is taken and its copy is called
LoopNext ==
    /\ pc = "loop"
    /\ idx <= Len(tables)
    /\ ~ShutdownRequested(running)
    /\ pc' = "count"
    /\ hist' = [hist EXCEPT !.attempted = Append(@, CurTable),
                            !.vobs = NoVobs,
                            !.tgtAtStart = tgt[CurTable],
                            !.errorsAtStart = stats.errors,
                            !.ckptAtStart = ckptFiles]
    /\ checkpoint' = <<>> /\ total_records' = 0 /\ processed_count' = 0
    /\ batch_num' = 0 /\ current_batch' = <<>> /\ cursor' = 0
    /\ UNCHANGED <<tables, batch_size, enable_resume, running, stats, idx, success,
                   runResult, storeVars>>
    /\ UNCHANGED auxVars
    /\ table_start_time' = clock
    /\ UNCHANGED metrics
    /\ UNCHANGED parVars

\* lines 370-373 and 385-397: the loop ends (list exhausted or shutdown requested)
Finish ==
    /\ pc = "loop"
    /\ idx > Len(tables) \/ ShutdownRequested(running)
    /\ pc' = "done"
    /\ runResult' = LoopResult(stats)
    /\ \E o \in CloseOutcomes(hist.faults) :
         LET c == cleanup(src_service, tgt_service, o) IN
         /\ src_service' = c[1] /\ tgt_service' = c[2]
         /\ hist' = [hist EXCEPT !.faults = @ + CloseFaults(o),
                                 !.closeFault = CloseRaised(src_service, tgt_service, o)]
    /\ UNCHANGED <<tables, batch_size, enable_resume, running, stats, idx, success,
                   copyVars, storeVars>>
    /\ UNCHANGED <<enable_parallel, sample_size>>
    /\ UNCHANGED timeVars
    /\ UNCHANGED parVars

\* --------------------------------------------------------- copy_table_data
\* Faulty variant: the exception is swallowed and the copy reports success
CopyFailsSilently(kind, h) ==
    /\ stats' = [stats EXCEPT !.errors = @ + 1]
    /\ success' = TRUE
    /\ pc' = "copied"
    /\ hist' = [h EXCEPT !.fault = kind, !.ret = "error", !.res[CurTable] = "fail",
                          !.faults = @ + 1]

\* lines 205-208: any exception ends the copy
CopyFails(kind, h) ==
    /\ stats' = [stats EXCEPT !.errors = @ + 1]
    /\ success' = FALSE
    /\ pc' = "copied"
    /\ hist' = [h EXCEPT !.fault = kind, !.ret = "error", !.res[CurTable] = "fail",
                          !.faults = @ + 1]

\* Faulty variant: a table with nothing to copy is reported as a failed copy
CopyReturnsEarlyAsError(why) ==
    /\ success' = FALSE
    /\ pc' = "copied"
    /\ hist' = [hist EXCEPT !.ret = why, !.res[CurTable] = "fail"]
    /\ stats' = [stats EXCEPT !.errors = @ + 1]

\* lines 117, 126: early return True
CopyReturnsEarly(why) ==
    /\ success' = TRUE
    /\ pc' = "copied"
    /\ hist' = [hist EXCEPT !.ret = why, !.res[CurTable] = "nothing"]
    /\ UNCHANGED stats

\* lines 97-119: load the checkpoint, count the source
CopyCount ==
    /\ pc = "count"
    /\ checkpoint' = IF enable_resume THEN load_checkpoint(ckptFiles, CurTable) ELSE <<>>
    /\ \E ok \in Outcomes :
         IF checkpoint' # <<>> /\ ~Formattable(checkpoint'[1])
         THEN \* lines 107-108: the log line's format raises, no disturbance involved
              CopyFails("checkpoint", [hist EXCEPT !.faults = @ - 1]) /\ UNCHANGED total_records
         ELSE IF ~ok
         THEN CopyFails("read", hist) /\ UNCHANGED total_records
         ELSE /\ total_records' = Count(src[CurTable])
              /\ IF NoData(Count(src[CurTable]))
                 THEN CopyReturnsEarly("empty")
                 ELSE pc' = "sample" /\ UNCHANGED <<stats, success, hist>>
    /\ UNCHANGED <<tables, batch_size, enable_resume, running, idx, runResult,
                   processed_count, batch_num, current_batch, cursor, storeVars>>
    /\ UNCHANGED auxVars
    /\ UNCHANGED timeVars
    /\ UNCHANGED parVars

\* Faulty variant: the stream is entered at the checkpoint's processed_count
StreamStartAtCheckpoint(ck) == IF ck = <<>> THEN 0 ELSE ck[1].processed_count

\* lines 141-143: SELECT * FROM table is iterated from its first row; the checkpoint
\* loaded at line 105 is not looked at
StreamStart(ck) == 0

\* lines 121-141: sample row, columns, open the stream
CopySample ==
    /\ pc = "sample"
    /\ IF Rows(src[CurTable]) = <<>>
       THEN CopyReturnsEarly("nosample")
       ELSE pc' = "stream" /\ UNCHANGED <<stats, success, hist>>
    /\ processed_count' = 0 /\ batch_num' = 0 /\ current_batch' = <<>>
    /\ cursor' = StreamStart(checkpoint)
    /\ UNCHANGED <<tables, batch_size, enable_resume, running, idx, runResult,
                   checkpoint, total_records, storeVars>>
    /\ UNCHANGED auxVars
    /\ UNCHANGED timeVars
    /\ UNCHANGED parVars

\* A call of save_checkpoint (lines 210-225); an I/O failure is logged and swallowed.
SaveStep(files, h, p, n, full, io) ==
    [files |-> IF io THEN save_checkpoint(files, CurTable, p, total_records, batch_size, clock)
               ELSE files,
     hist |-> [h EXCEPT !.ckptOps = Append(@, [op |-> "save", processed_count |-> p,
                                               total_count |-> total_records,
                                               batch_num |-> n,
                                               flushed |-> Len(h.flushes),
                                               written |-> Len(h.wlog),
                                               full |-> full, stored |-> io]),
                        !.ioFault = @ \/ ~io,
                        !.faults = IF io THEN @ ELSE @ + 1]]

\* lines 143-165: one row of the stream; a full batch is flushed
StreamRow ==
    /\ pc = "stream"
    /\ cursor < Len(Rows(src[CurTable]))
    /\ LET row == Rows(src[CurTable])[cursor + 1]
           batch == Append(current_batch, row)
       IN
       /\ cursor' = cursor + 1
       /\ IF ~BatchFull(batch, batch_size)
          THEN /\ current_batch' = batch
               /\ UNCHANGED <<processed_count, batch_num, stats, success, pc, hist, storeVars>>
          ELSE \E f \in WritePoints(Len(batch)) :
               LET h1 == [hist EXCEPT !.wlog = @ \o Prefix(batch, f)] IN
               /\ tgt' = [tgt EXCEPT ![CurTable] = InsertAll(@, Prefix(batch, f))]
               /\ IF f < Len(batch)
                  THEN /\ CopyFails("write", h1)
                       /\ current_batch' = batch
                       /\ UNCHANGED <<processed_count, batch_num, src, ckptFiles, clock>>
                  ELSE LET p == CountAfterFlush(processed_count, batch)
                           n == batch_num + 1
                           h2 == [h1 EXCEPT !.flushes = Append(@, Len(batch))]
                       IN
                       /\ processed_count' = p
                       /\ batch_num' = n
                       /\ current_batch' = BatchAfterFlush(batch)
                       /\ IF PeriodicSaveDue(enable_resume, n)
                          THEN \E io \in Outcomes :
                               LET s == SaveStep(ckptFiles, h2, p, n, TRUE, io) IN
                               /\ ckptFiles' = s.files
                               /\ hist' = s.hist
                               /\ clock' = clock + 1
                          ELSE hist' = h2 /\ UNCHANGED <<ckptFiles, clock>>
                       /\ UNCHANGED <<stats, success, pc, src>>
    /\ UNCHANGED <<tables, batch_size, enable_resume, running, idx, runResult,
                   checkpoint, total_records>>
    /\ UNCHANGED auxVars
    /\ UNCHANGED timeVars
    /\ UNCHANGED parVars

\* A call of clear_checkpoint (lines 238-245); an I/O failure is logged and swallowed.
ClearStep(files, h, io) ==
    [files |-> IF io THEN clear_checkpoint(files, CurTable) ELSE files,
     hist |-> [h EXCEPT !.ckptOps = Append(@, [op |-> "clear", processed_count |-> 0,
                                               total_count |-> 0, batch_num |-> 0,
                                               flushed |-> Len(h.flushes),
                                               written |-> Len(h.wlog),
                                               full |-> FALSE, stored |-> io]),
                        !.ioFault = @ \/ ~io,
                        !.faults = IF io THEN @ ELSE @ + 1]]

\* ------------------------------------------------- get_performance_metrics
\* A quotient a / d of true division (d > 0), kept as the pair it is made of.
Ratio(a, d) == [num |-> a, den |-> d]
SameRatio(r, q) == r.num * q.den = q.num * r.den

\* PerformanceMetrics(): every field at its default, 0
ZeroMetrics ==
    [records_per_second |-> Ratio(0, 1), memory_usage_percent |-> 0,
     cpu_usage_percent |-> 0, duration_seconds |-> 0, total_records |-> 0]

\* what the host answers: both psutil calls return (a reading, here 1), or
\* psutil.virtual_memory() raises, or psutil.cpu_percent() raises
HostAnswers == {"ok", "memory", "cpu"}
HostOutcomes == IF hist.faults < MaxFaults THEN HostAnswers ELSE {"ok"}

\* Faulty variant: the division is made for every duration but 0
DurationNonZero(duration) == duration # 0

\* line 249: the division is made only for a positive duration
PositiveDuration(duration) == duration > 0

\* get_performance_metrics, lines 247-262
get_performance_metrics(duration, record_count, host) ==
    IF host # "ok"
    THEN ZeroMetrics
    ELSE [records_per_second |-> IF PositiveDuration(duration)
                                 THEN Ratio(record_count, duration) ELSE Ratio(0, 1),
          memory_usage_percent |-> 1,
          cpu_usage_percent |-> 1,
          duration_seconds |-> duration,
          total_records |-> record_count]

\* lines 185-203: metrics, clear the checkpoint, update the statistics, return True
CopyCompletes(files, h, p, now) ==
    /\ stats' = [stats EXCEPT !.tables_processed = @ + 1, !.records_processed = @ + p]
    /\ success' = TRUE
    /\ pc' = "copied"
    /\ \E host \in HostOutcomes :
         LET hm == [h EXCEPT !.hostFault = host # "ok",
                             !.faults = IF host = "ok" THEN @ ELSE @ + 1]
         IN
         /\ metrics' = <<get_performance_metrics(now - table_start_time, p, host)>>
         /\ IF ClearDue(enable_resume)
            THEN \E io \in Outcomes :
                 LET c == ClearStep(files, hm, io) IN
                 /\ ckptFiles' = c.files
                 /\ hist' = [c.hist EXCEPT !.ret = "complete", !.res[CurTable] = "copied"]
            ELSE /\ ckptFiles' = files
                 /\ hist' = [hm EXCEPT !.ret = "complete", !.res[CurTable] = "copied"]

\* lines 167-203: the stream is exhausted; the trailing batch is flushed
StreamEnd ==
    /\ pc = "stream"
    /\ cursor >= Len(Rows(src[CurTable]))
    /\ IF current_batch # <<>>
       THEN \E f \in WritePoints(Len(current_batch)) :
            LET h1 == [hist EXCEPT !.wlog = @ \o Prefix(current_batch, f)] IN
            /\ tgt' = [tgt EXCEPT ![CurTable] = InsertAll(@, Prefix(current_batch, f))]
            /\ IF f < Len(current_batch)
               THEN /\ CopyFails("write", h1)
                    /\ UNCHANGED <<processed_count, batch_num, ckptFiles, clock, metrics>>
               ELSE LET p == CountAfterFlush(processed_count, current_batch)
                        n == batch_num + 1
                        h2 == [h1 EXCEPT !.flushes = Append(@, Len(current_batch))]
                    IN
                    /\ processed_count' = p
                    /\ batch_num' = n
                    /\ IF FinalSaveDue(enable_resume)
                       THEN \E io \in Outcomes :
                            LET s == SaveStep(ckptFiles, h2, p, n, FALSE, io) IN
                            /\ CopyCompletes(s.files, s.hist, p, clock + 1)
                            /\ clock' = clock + 1
                       ELSE CopyCompletes(ckptFiles, h2, p, clock) /\ UNCHANGED clock
       ELSE /\ CopyCompletes(ckptFiles, hist, processed_count, clock)
            /\ UNCHANGED <<processed_count, batch_num, tgt, clock>>
    /\ UNCHANGED <<tables, batch_size, enable_resume, running, idx, runResult,
                   checkpoint, total_records, current_batch, cursor, src>>
    /\ UNCHANGED auxVars
    /\ UNCHANGED table_start_time
    /\ UNCHANGED parVars

\* copy_table_data's frame is gone once the loop takes over again
FrameDropped ==
    /\ checkpoint' = <<>> /\ total_records' = 0 /\ processed_count' = 0
    /\ batch_num' = 0 /\ current_batch' = <<>> /\ cursor' = 0
    /\ table_start_time' = 0 /\ metrics' = <<>>
    /\ success' = FALSE

ObservationReset(h) ==
    [h EXCEPT !.wlog = <<>>, !.flushes = <<>>, !.ckptOps = <<>>,
              !.fault = "none", !.ioFault = FALSE, !.hostFault = FALSE, !.ret = "none",
              !.mutated = FALSE, !.errorsAtStart = 0, !.ckptAtStart = <<>>,
              !.tgtAtStart = EmptyTable]

\* Faulty variant: a failed copy ends the loop
SkipFailedStops ==
    /\ pc = "copied"
    /\ ~success
    /\ pc' = "loop"
    /\ idx' = Len(tables) + 1
    /\ FrameDropped
    /\ hist' = ObservationReset(hist)
    /\ UNCHANGED <<tables, batch_size, enable_resume, running, stats, runResult, storeVars>>
    /\ UNCHANGED auxVars
    /\ UNCHANGED parVars

\* lines 378-380: a failed copy is logged and the loop goes on
SkipFailed ==
    /\ pc = "copied"
    /\ ~success
    /\ pc' = "loop"
    /\ idx' = idx + 1
    /\ FrameDropped
    /\ hist' = ObservationReset(hist)
    /\ UNCHANGED <<tables, batch_size, enable_resume, running, stats, runResult, storeVars>>
    /\ UNCHANGED auxVars
    /\ UNCHANGED parVars

\* Faulty variant: a successful copy goes straight to the next table
CallValidatorSkipped ==
    /\ pc = "copied"
    /\ success
    /\ pc' = "loop"
    /\ idx' = idx + 1
    /\ FrameDropped
    /\ hist' = ObservationReset(hist)
    /\ UNCHANGED <<tables, batch_size, enable_resume, running, stats, runResult, storeVars>>
    /\ UNCHANGED auxVars
    /\ UNCHANGED parVars

\* lines 378-383: a successful copy is followed by the validator
CallValidator ==
    /\ pc = "copied"
    /\ success
    /\ pc' = "validate"
    /\ UNCHANGED <<tables, batch_size, enable_resume, running, stats, idx, success, runResult,
                   copyVars, storeVars, hist>>
    /\ UNCHANGED auxVars
    /\ UNCHANGED timeVars
    /\ UNCHANGED parVars

\* Faulty variant: a mismatch is counted as an error
StatsAfterValidationCounting(st, verdict) ==
    IF verdict THEN st ELSE [st EXCEPT !.errors = @ + 1]

\* line 383: the validator's result is not assigned and the statistics stay as
\* they are
StatsAfterValidation(st, verdict) == st

\* The validator returns (lines 281, 293, 296, 300); run_backfill drops the result
\* (line 383) and goes to the next table.
ValidatorReturns(h, verdict) ==
    /\ stats' = StatsAfterValidation(stats, verdict)
    /\ hist' = [ObservationReset(h) EXCEPT !.validated = Append(@, <<CurTable, verdict>>),
                                           !.vobs.called = TRUE,
                                           !.vobs.verdict = verdict]
    /\ pc' = "loop"
    /\ idx' = idx + 1
    /\ sample_size' = 0
    /\ FrameDropped

\* Faulty variant: differing counts are only logged and the samples are compared
CountsDifferIgnored(sc, tc) == FALSE

\* line 279: the counts differ
CountsDiffer(sc, tc) == sc # tc

\* validate_data_integrity_detailed, lines 272-284: the two counts are taken and
\* compared; a query that raises makes the validator return False (lines 298-300)
ValidateCounts ==
    /\ pc = "validate"
    /\ \E ok \in Outcomes :
         LET src_count == Count(src[CurTable])
             tgt_count == Count(tgt[CurTable])
             h == [hist EXCEPT !.vobs.src_count = src_count, !.vobs.tgt_count = tgt_count]
         IN
         IF ~ok
         THEN ValidatorReturns([hist EXCEPT !.faults = @ + 1, !.vobs.raised = TRUE], FALSE)
         ELSE IF CountsDiffer(src_count, tgt_count)
         THEN ValidatorReturns(h, FALSE)
         ELSE IF Min(SampleSize, src_count) > 0
         THEN /\ pc' = "vsample"
              /\ sample_size' = Min(SampleSize, src_count)
              /\ hist' = h
              /\ UNCHANGED <<idx, success, copyVars, timeVars, stats>>
         ELSE ValidatorReturns(h, TRUE)
    /\ UNCHANGED <<tables, batch_size, enable_resume, running, runResult, storeVars>>
    /\ UNCHANGED <<enable_parallel, connVars>>
    /\ UNCHANGED parVars

\* lines 285-296: the two samples are fetched and compared pair by pair
ValidateSample ==
    /\ pc = "vsample"
    /\ LET src_sample == Sample(src[CurTable], sample_size)
           tgt_sample == Sample(tgt[CurTable], sample_size)
       IN ValidatorReturns([hist EXCEPT !.vobs.sampled = TRUE,
                                        !.vobs.src_sample = src_sample,
                                        !.vobs.tgt_sample = tgt_sample],
                           SamplesAgree(src_sample, tgt_sample))
    /\ UNCHANGED <<tables, batch_size, enable_resume, running, runResult, storeVars>>
    /\ UNCHANGED <<enable_parallel, connVars>>
    /\ UNCHANGED parVars

\* The source is a live store: another writer adds or removes a row while the
\* table is being copied (after the COUNT of line 112).
SourceMutates ==
    /\ pc \in {"sample", "stream", "copied", "vsample"}
    /\ hist.faults < MaxFaults
    /\ LET S == src[CurTable]
           n == Count(S)
       IN \/ src' = [src EXCEPT ![CurTable] = Upsert(S, <<n + 1, 1>>)]
          \/ /\ n > 0
             /\ src' = [src EXCEPT ![CurTable] = [k \in DOMAIN S \ {n} |-> S[k]]]
    /\ hist' = [hist EXCEPT !.mutations = @ + 1, !.mutated = TRUE, !.faults = @ + 1]
    /\ UNCHANGED <<svcVars, copyVars, tgt, ckptFiles, clock>>
    /\ UNCHANGED auxVars
    /\ UNCHANGED timeVars
    /\ UNCHANGED parVars

NextRun ==
    \/ SignalHandler
    \/ InitializeServices
    \/ LoopNext
    \/ Finish
    \/ CopyCount
    \/ CopySample
    \/ StreamRow
    \/ StreamEnd
    \/ SkipFailed
    \/ CallValidator
    \/ ValidateCounts
    \/ ValidateSample
    \/ SourceMutates

\* -------------------------------------------------- process_batch_parallel
BatchIds == DOMAIN batches

\* Nothing of process_batch_parallel is running.
ParIdle ==
    /\ batches = <<>> /\ max_workers = 0 /\ failAt = <<>>
    /\ ppc = "idle" /\ future = <<>> /\ batch_processed = <<>>
    /\ consumed = {} /\ par_count = 0
    /\ pobs = [attempts |-> <<>>, writes |-> <<>>, logged |-> 0, poolFault |-> "none",
               fallback |-> FALSE]

\* A call of process_batch_parallel with K batches of B rows each.
InitPar ==
    /\ \E K \in 0..MaxK, B \in 1..MaxParB :
         /\ batches = [i \in 1..K |-> B]
         /\ failAt \in [1..K -> 0..B]
         /\ future = [i \in 1..K |-> "new"]
         /\ batch_processed = [i \in 1..K |-> 0]
         /\ pobs = [attempts |-> [i \in 1..K |-> 0], writes |-> [i \in 1..K |-> 0],
                    logged |-> 0, poolFault |-> "none", fallback |-> FALSE]
    /\ max_workers \in 1..MaxWorkers
    /\ ppc = "start"
    /\ consumed = {}
    /\ par_count = 0

\* Faulty variant: a failed batch is counted like a successful one
CountedAlways(st, n) == n

\* lines 323-329: a future's result is added; a failed future is logged, not added
Counted(st, n) == IF st = "done" THEN n ELSE 0

\* line 314: the pool is constructed (or its construction raises: line 331)
PoolConstruct ==
    /\ ppc = "start"
    /\ \/ ppc' = "submit" /\ UNCHANGED pobs
       \/ ppc' = "fallback" /\ pobs' = [pobs EXCEPT !.poolFault = "construct"]
    /\ UNCHANGED <<batches, max_workers, failAt, future, batch_processed, consumed, par_count>>
    /\ UNCHANGED runVars

Unsubmitted == {i \in BatchIds : future[i] = "new"}
Queued == {i \in BatchIds : future[i] = "queued"}
Running == {i \in BatchIds : future[i] = "running"}
Least(S) == CHOOSE x \in S : \A y \in S : x <= y

\* lines 316-319: the batches are submitted in list order. submit() queues the work
\* item and then starts a thread when fewer than max_workers exist; when the thread
\* cannot be started submit raises, with the item already queued.
Submit ==
    /\ ppc = "submit"
    /\ IF Unsubmitted = {}
       THEN ppc' = "collect" /\ UNCHANGED <<future, pobs>>
       ELSE LET i == Least(Unsubmitted)
                threads == Min(max_workers, i - 1)
            IN \/ /\ future' = [future EXCEPT ![i] = "queued"]
                  /\ UNCHANGED <<ppc, pobs>>
               \/ /\ threads < max_workers
                  /\ future' = [future EXCEPT ![i] = IF threads = 0 THEN "dropped" ELSE "queued"]
                  /\ ppc' = "exit"
                  /\ pobs' = [pobs EXCEPT !.poolFault = "submit"]
    /\ UNCHANGED <<batches, max_workers, failAt, batch_processed, consumed, par_count>>
    /\ UNCHANGED runVars

\* A pool thread takes the oldest queued work item (process_single_batch, line 306).
WorkerTakes ==
    /\ Queued # {}
    /\ Cardinality(Running) < max_workers
    /\ LET i == Least(Queued) IN
       /\ future' = [future EXCEPT ![i] = IF batches[i] = 0 THEN "done" ELSE "running"]
       /\ batch_processed' = [batch_processed EXCEPT ![i] = 0]
       /\ pobs' = [pobs EXCEPT !.attempts[i] = @ + 1]
    /\ UNCHANGED <<batches, max_workers, failAt, ppc, consumed, par_count>>
    /\ UNCHANGED runVars

\* lines 307-311: one row of a batch is written by its worker, or its write raises
WorkerWrites ==
    \E i \in Running :
        /\ IF failAt[i] = batch_processed[i] + 1
           THEN /\ future' = [future EXCEPT ![i] = "failed"]
                /\ UNCHANGED <<batch_processed, pobs>>
           ELSE /\ batch_processed' = [batch_processed EXCEPT ![i] = @ + 1]
                /\ pobs' = [pobs EXCEPT !.writes[i] = @ + 1]
                /\ future' = [future EXCEPT ![i] =
                                  IF batch_processed[i] + 1 = batches[i] THEN "done" ELSE "running"]
        /\ UNCHANGED <<batches, max_workers, failAt, ppc, consumed, par_count>>
    /\ UNCHANGED runVars

\* lines 322-329: as_completed yields a finished future; its result is taken
Collect ==
    /\ ppc = "collect"
    /\ \E i \in BatchIds \ consumed :
         /\ future[i] \in {"done", "failed"}
         /\ par_count' = par_count + Counted(future[i], batch_processed[i])
         /\ pobs' = [pobs EXCEPT !.logged = IF future[i] = "failed" THEN @ + 1 ELSE @]
         /\ consumed' = consumed \cup {i}
    /\ UNCHANGED <<batches, max_workers, failAt, ppc, future, batch_processed>>
    /\ UNCHANGED runVars

\* lines 314 and 340: every future was yielded; the with block is left, the count returned
Return ==
    /\ ppc = "collect"
    /\ consumed = BatchIds
    /\ ppc' = "returned"
    /\ UNCHANGED <<batches, max_workers, failAt, future, batch_processed, consumed,
                   par_count, pobs>>
    /\ UNCHANGED runVars

\* line 314 (__exit__) and 331: after submit raised, the with block waits for the
\* queued and running work items, and the handler takes over
PoolExit ==
    /\ ppc = "exit"
    /\ Queued = {} /\ Running = {}
    /\ ppc' = "fallback"
    /\ UNCHANGED <<batches, max_workers, failAt, future, batch_processed, consumed,
                   par_count, pobs>>
    /\ UNCHANGED runVars

\* lines 333-340: the handler applies every batch, row by row, in the calling thread;
\* a write that raises here leaves the function as an exception
FirstFailing == {i \in BatchIds : failAt[i] # 0 /\ \A j \in BatchIds : j < i => failAt[j] = 0}
Fallback ==
    /\ ppc = "fallback"
    /\ LET rowsOf(i) == IF \E j \in FirstFailing : j < i THEN 0
                        ELSE IF i \in FirstFailing THEN failAt[i] - 1
                        ELSE batches[i]
           total == SeqSum([i \in BatchIds |-> rowsOf(i)])
       IN /\ pobs' = [pobs EXCEPT !.fallback = TRUE,
                                  !.writes = [i \in BatchIds |-> @[i] + rowsOf(i)],
                                  !.attempts = [i \in BatchIds |->
                                      IF \E j \in FirstFailing : j < i THEN @[i] ELSE @[i] + 1]]
          /\ par_count' = par_count + total
          /\ ppc' = IF FirstFailing = {} THEN "returned" ELSE "raised"
    /\ UNCHANGED <<batches, max_workers, failAt, future, batch_processed, consumed>>
    /\ UNCHANGED runVars

NextPar ==
    \/ PoolConstruct
    \/ Submit
    \/ WorkerTakes
    \/ WorkerWrites
    \/ Collect
    \/ Return
    \/ PoolExit
    \/ Fallback

vars == <<runVars, parVars>>

\* run_backfill over a list of tables
Init == InitRun /\ ParIdle
Next == NextRun
Spec == Init /\ [][Next]_vars

\* copy_table_data on one table of any size up to MaxRows, driven by run_backfill
CopyInit == InitCopy /\ ParIdle
CopySpec == CopyInit /\ [][Next]_vars

\* one call of process_batch_parallel
RunIdle ==
    /\ InitWith({1}, {0}, WellFormedStale) /\ batch_size = 1 /\ enable_resume /\ ckptFiles = <<>>
    /\ enable_parallel = TRUE
ParInit == InitPar /\ RunIdle
ParSpec == ParInit /\ [][NextPar]_vars

\* ------------------------------------------------------------ reprocessing
\* run_backfill on a list that names the same table twice: the table is copied, and
\* copied again whatever the first copy did. The table has up to MaxRerunRows rows,
\* the values of which are not all the same.
InitRerun ==
    /\ tables = <<1, 1>>
    /\ \E n \in 0..MaxRerunRows, d \in {0, 1} : src = <<ValTable(n, d)>>
    /\ tgt = <<EmptyTable>>
    /\ ckptFiles = <<>> /\ clock = 1
    /\ batch_size \in 1..MaxBatch
    /\ enable_resume \in BOOLEAN /\ enable_parallel \in BOOLEAN
    /\ running = TRUE
    /\ stats = [tables_processed |-> 0, records_processed |-> 0, errors |-> 0]
    /\ pc = "init" /\ idx = 1 /\ success = FALSE /\ runResult = "none"
    /\ checkpoint = <<>> /\ total_records = 0 /\ processed_count = 0
    /\ batch_num = 0 /\ current_batch = <<>> /\ cursor = 0
    /\ src_service = "unset" /\ tgt_service = "unset"
    /\ sample_size = 0
    /\ table_start_time = 0 /\ metrics = <<>>
    /\ hist = [FreshHist EXCEPT !.res = <<"none">>]

RerunInit == InitRerun /\ ParIdle
RerunSpec == RerunInit /\ [][Next]_vars

\* ------------------------------------------------------------- the metrics
\* get_performance_metrics called, as at line 186, with a duration that is the
\* difference of two readings of time.time() (which may step backwards) and a
\* record count.
InitMetrics ==
    /\ tables = <<1>>
    /\ src = <<EmptyTable>> /\ tgt = <<EmptyTable>>
    /\ ckptFiles = <<>>
    /\ clock \in 0..MaxTime
    /\ table_start_time \in 0..MaxTime
    /\ processed_count \in 0..MaxCount
    /\ batch_size = 1 /\ enable_resume = TRUE /\ enable_parallel = TRUE
    /\ running = TRUE
    /\ stats = [tables_processed |-> 0, records_processed |-> 0, errors |-> 0]
    /\ pc = "init" /\ idx = 1 /\ success = FALSE /\ runResult = "none"
    /\ checkpoint = <<>> /\ total_records = 0
    /\ batch_num = 0 /\ current_batch = <<>> /\ cursor = 0
    /\ src_service = "unset" /\ tgt_service = "unset"
    /\ sample_size = 0
    /\ metrics = <<>>
    /\ hist = [FreshHist EXCEPT !.res = <<"none">>]

\* get_performance_metrics(table_name, duration, record_count), lines 247-262
GetPerformanceMetrics ==
    /\ hist.lastOp[1] = "none"
    /\ \E host \in HostOutcomes :
         /\ metrics' = <<get_performance_metrics(clock - table_start_time, processed_count, host)>>
         /\ hist' = [hist EXCEPT !.lastOp = <<"metrics", 0>>,
                                 !.hostFault = host # "ok",
                                 !.faults = IF host = "ok" THEN @ ELSE @ + 1]
    /\ UNCHANGED <<svcVars, copyVars, storeVars, auxVars, table_start_time, parVars>>

NextMetrics ==
    \/ GetPerformanceMetrics

MetricsInit == InitMetrics /\ ParIdle
MetricsSpec == MetricsInit /\ [][NextMetrics]_vars

\* ------------------------------------------------------ the checkpoint store
\* save_checkpoint, load_checkpoint and clear_checkpoint called in any order on the
\* files of two tables, each file at first absent or of any form. hist.reg[t] is the
\* record a reader of table t is owed: the one last saved (val = <<record>>), none
\* after a clear or when there never was a file (val = <<>>); it is not known as long
\* as the file is one that no save of this store wrote.
StoreTables == {1, 2}
StoreProgress == {0, 1}

InitStore ==
    /\ tables = <<1, 2>>
    /\ src = <<EmptyTable, EmptyTable>> /\ tgt = <<EmptyTable, EmptyTable>>
    /\ \E D \in SUBSET StoreTables : \E fm \in [D -> FileForms] :
         /\ ckptFiles = [t \in D |-> StaleFile(t, <<fm[t], 1>>)]
         /\ hist = [FreshHist EXCEPT
                       !.res = <<"none", "none">>,
                       !.ckpt0 = ckptFiles,
                       !.reg = [t \in StoreTables |->
                                   [known |-> t \notin D \/ fm[t] = "object",
                                    val |-> IF t \in D /\ fm[t] = "object"
                                            THEN <<ckptFiles[t]>> ELSE <<>>]]]
    /\ clock = 1
    /\ batch_size = 1 /\ enable_resume = TRUE /\ enable_parallel = TRUE
    /\ running = TRUE
    /\ stats = [tables_processed |-> 0, records_processed |-> 0, errors |-> 0]
    /\ pc = "init" /\ idx = 1 /\ success = FALSE /\ runResult = "none"
    /\ checkpoint = <<>> /\ total_records = 0 /\ processed_count = 0
    /\ batch_num = 0 /\ current_batch = <<>> /\ cursor = 0
    /\ src_service = "unset" /\ tgt_service = "unset"
    /\ sample_size = 0
    /\ table_start_time = 0 /\ metrics = <<>>

StoreUnchanged ==
    UNCHANGED <<svcVars, total_records, processed_count, batch_num, current_batch, cursor,
                src, tgt, auxVars, timeVars, parVars>>

\* save_checkpoint(t, p, 2, batch_size), lines 210-225; a failing file operation is
\* logged and swallowed
StoreSave ==
    /\ hist.ops < MaxOps
    /\ \E t \in StoreTables, p \in StoreProgress, io \in Outcomes :
         /\ ckptFiles' = IF io THEN save_checkpoint(ckptFiles, t, p, 2, batch_size, clock)
                          ELSE ckptFiles
         /\ hist' = [hist EXCEPT !.ops = @ + 1, !.lastOp = <<"save", t>>,
                                 !.ioFault = @ \/ ~io,
                                 !.faults = IF io THEN @ ELSE @ + 1,
                                 !.reg[t] = IF io
                                            THEN [known |-> TRUE,
                                                  val |-> <<json_dump(Checkpoint(t, p, 2, batch_size, clock))>>]
                                            ELSE @]
    /\ clock' = clock + 1
    /\ UNCHANGED checkpoint
    /\ StoreUnchanged

\* load_checkpoint(t), lines 227-236
StoreLoad ==
    /\ hist.ops < MaxOps
    /\ \E t \in StoreTables :
         /\ checkpoint' = load_checkpoint(ckptFiles, t)
         /\ hist' = [hist EXCEPT !.ops = @ + 1, !.lastOp = <<"load", t>>]
    /\ UNCHANGED <<ckptFiles, clock>>
    /\ StoreUnchanged

\* clear_checkpoint(t), lines 238-245; a failing file operation is logged and swallowed
StoreClear ==
    /\ hist.ops < MaxOps
    /\ \E t \in StoreTables, io \in Outcomes :
         /\ ckptFiles' = IF io THEN clear_checkpoint(ckptFiles, t) ELSE ckptFiles
         /\ hist' = [hist EXCEPT !.ops = @ + 1, !.lastOp = <<"clear", t>>,
                                 !.ioFault = @ \/ (~io /\ HasCheckpoint(ckptFiles, t)),
                                 !.faults = IF io THEN @ ELSE @ + 1,
                                 !.reg[t] = IF io THEN [known |-> TRUE, val |-> <<>>] ELSE @]
    /\ UNCHANGED <<checkpoint, clock>>
    /\ StoreUnchanged

NextStore ==
    \/ StoreSave
    \/ StoreLoad
    \/ StoreClear

StoreInit == InitStore /\ ParIdle
StoreSpec == StoreInit /\ [][NextStore]_vars

\* validate_data_integrity_detailed alone, called as at line 383 on a source and a
\* target table of any content: up to MaxValRows rows, or as many rows as the sample
\* holds and one more; all values 1 but for at most one row whose value is 2.
ValShapes ==
    {<<n, d>> : n \in 0..MaxValRows, d \in 0..MaxValRows}
        \cup ({SampleSize, SampleSize + 1} \X {0, 1, SampleSize, SampleSize + 1})
ValTables == {ValTable(sh[1], sh[2]) : sh \in {x \in ValShapes : x[2] <= x[1]}}

InitVal ==
    /\ tables = <<1>>
    /\ \E S \in ValTables, T \in ValTables : src = <<S>> /\ tgt = <<T>>
    /\ ckptFiles = <<>> /\ clock = 1
    /\ batch_size = 1 /\ enable_resume = FALSE /\ enable_parallel = TRUE
    /\ running = TRUE
    /\ stats = [tables_processed |-> 1, records_processed |-> 0, errors |-> 0]
    /\ pc = "validate" /\ idx = 1 /\ success = TRUE /\ runResult = "none"
    /\ checkpoint = <<>> /\ total_records = 0 /\ processed_count = 0
    /\ batch_num = 0 /\ current_batch = <<>> /\ cursor = 0
    /\ src_service = "open" /\ tgt_service = "open"
    /\ sample_size = 0
    /\ table_start_time = 0 /\ metrics = <<>>
    /\ hist = [FreshHist EXCEPT !.attempted = <<1>>, !.res = <<"copied">>]

NextVal ==
    \/ ValidateCounts
    \/ ValidateSample
    \/ SourceMutates

ValInit == InitVal /\ ParIdle
ValSpec == ValInit /\ [][NextVal]_vars

\* ===================================================================== claims
CeilDiv(n, b) == (n + b - 1) \div b

Returned == pc = "copied"
NoCopyFault == hist.fault = "none"
SourceUnchanged == ~hist.mutated
SaveOps == {i \in 1..Len(hist.ckptOps) : hist.ckptOps[i].op = "save"}
ClearOps == {i \in 1..Len(hist.ckptOps) : hist.ckptOps[i].op = "clear"}
KeysOf(rows) == {rows[i][1] : i \in 1..Len(rows)}

\* C1: a fault-free copy of an unchanging table of N rows with batch size B makes
\* ceil(N / B) flushes, the flushed rows add up to N, and the rows written to the
\* target are the source's rows, each once, in stream order.
C1_FlushesAndRows ==
    (Returned /\ NoCopyFault /\ SourceUnchanged) =>
        LET N == Count(src[CurTable]) IN
        /\ success
        /\ Len(hist.flushes) = CeilDiv(N, batch_size)
        /\ SeqSum(hist.flushes) = N
        /\ hist.wlog = Rows(src[CurTable])
        /\ tgt[CurTable] = src[CurTable]

C1_Witness ==
    /\ Returned /\ NoCopyFault /\ SourceUnchanged
    /\ batch_size = 2
    /\ Count(src[CurTable]) = 5
    /\ hist.flushes = <<2, 2, 1>>

\* C2 (as claimed): every persisted checkpoint has 0 <= processed_count <= total_count,
\* also when the COUNT taken up front has gone stale.
C2_ProcessedWithinTotal ==
    \A t \in DOMAIN ckptFiles :
        /\ 0 <= ckptFiles[t].processed_count
        /\ ckptFiles[t].processed_count <= ckptFiles[t].total_count

\* C3: a failing write ends the copy at once: the rows written are the flushed rows
\* and the rows of the failing batch before the failing one, nothing else reached the
\* target, the copy returns failure, and the checkpoint file is what the last stored
\* save left (or what was there before the copy) with no clear having been called.
C3_WriteFailureStops ==
    (Returned /\ hist.fault = "write") =>
        LET t == CurTable
            stored == {i \in SaveOps : hist.ckptOps[i].stored}
            last == CHOOSE i \in stored : \A j \in stored : j <= i
        IN
        /\ ~success
        /\ Len(hist.wlog) >= processed_count
        /\ Len(hist.wlog) < processed_count + Len(current_batch)
        /\ cursor = processed_count + Len(current_batch)
        /\ DOMAIN tgt[t] = KeysOf(hist.wlog)
        /\ ClearOps = {}
        /\ IF stored = {}
           THEN /\ HasCheckpoint(ckptFiles, t) = HasCheckpoint(hist.ckptAtStart, t)
                /\ HasCheckpoint(ckptFiles, t) => ckptFiles[t] = hist.ckptAtStart[t]
           ELSE /\ HasCheckpoint(ckptFiles, t)
                /\ ckptFiles[t].processed_count = hist.ckptOps[last].processed_count
                /\ ckptFiles[t].total_count = hist.ckptOps[last].total_count
                /\ ckptFiles[t].processed_count <= Len(hist.wlog)

C3_Witness ==
    /\ Returned /\ hist.fault = "write"
    /\ SaveOps # {}
    /\ HasCheckpoint(ckptFiles, CurTable)
    /\ ckptFiles[CurTable].processed_count = CheckpointEvery * batch_size
    /\ Len(hist.wlog) >= ckptFiles[CurTable].processed_count


Failed(t) == hist.res[t] = "fail"
ValidatedTables == {hist.validated[i][1] : i \in 1..Len(hist.validated)}

\* C4: a failed copy adds exactly one to the error counter, the failed table is never
\* handed to the validator, and the run goes on: a run that was not asked to shut
\* down attempts every table of the list, in order, whatever failed before.
C4_FailureDoesNotStopRun ==
    /\ (Returned /\ ~success) => stats.errors = hist.errorsAtStart + 1
    /\ pc \in {"loop", "done"} =>
           stats.errors = Cardinality({t \in DOMAIN hist.res : Failed(t)})
    /\ \A t \in ValidatedTables : ~Failed(t)
    /\ (pc = "done" /\ runResult = "success" /\ running) => hist.attempted = tables
    /\ hist.attempted = Prefix(tables, Len(hist.attempted))

C4_Witness ==
    /\ pc = "done" /\ running
    /\ Len(tables) = NumTables
    /\ Failed(tables[1])
    /\ stats.errors = 1
    /\ hist.attempted = tables
    /\ ValidatedTables = {tables[i] : i \in 2..Len(tables)}

\* C5: the cancellation flag only stops the loop between tables. Once it is set it
\* stays set and no further copy starts; a table in progress when the signal arrives
\* is still copied to its end (all rows written, its checkpoint cleared) and, when
\* its copy succeeded, validated; a signal between table 1 and table 2 ends the run
\* with table 1 the only table attempted, the later tables' target and checkpoints
\* untouched, and tables_processed = 1 when table 1 was copied.
C5_ShutdownBetweenTables ==
    LET k == hist.sigAttempted IN
    (k >= 0) =>
        /\ ~running
        /\ Len(hist.attempted) = k
        /\ (hist.sigPc = "table" /\ Returned /\ NoCopyFault /\ SourceUnchanged) =>
               /\ success
               /\ hist.wlog = Rows(src[CurTable])
               /\ (hist.ret = "complete" /\ enable_resume /\ ~hist.ioFault) =>
                      (ClearOps # {} /\ ~HasCheckpoint(ckptFiles, CurTable))
        /\ (hist.sigPc = "table" /\ pc = "done") =>
               /\ hist.res[tables[k]] # "none"
               /\ hist.res[tables[k]] # "fail" => tables[k] \in ValidatedTables
        /\ (hist.sigPc = "between" /\ pc = "done" /\ runResult = "success") =>
               /\ hist.attempted = Prefix(tables, k)
               /\ \A i \in (k + 1)..Len(tables) :
                      /\ tgt[tables[i]] = EmptyTable
                      /\ hist.res[tables[i]] = "none"
                      /\ HasCheckpoint(ckptFiles, tables[i]) = HasCheckpoint(hist.ckpt0, tables[i])
               /\ (k = 1 /\ hist.res[tables[1]] = "copied") => stats.tables_processed = 1

C5_Witness ==
    /\ pc = "done"
    /\ Len(tables) = 3
    /\ hist.sigAttempted = 1 /\ hist.sigPc = "between"
    /\ hist.res = <<"copied", "none", "none">>
    /\ stats.tables_processed = 1
    /\ tgt[tables[1]] = src[tables[1]]
    /\ ~HasCheckpoint(ckptFiles, tables[1])

\* C6 (as claimed): after copy_table_data returned success no checkpoint of the table
\* is retrievable, whatever the store held before, for every table size and every
\* value of enable_resume (checkpoint file operations not failing).
C6_NoCheckpointAfterSuccess ==
    (Returned /\ success /\ ~hist.ioFault) => load_checkpoint(ckptFiles, CurTable) = <<>>

\* C7: when no row is there to copy (the COUNT is 0, or no sample row comes back) the
\* copy returns success, has written nothing to the target, has not called
\* save_checkpoint, leaves the checkpoint files alone and does not count an error.
C7_NothingToCopy ==
    (Returned /\ NoCopyFault /\ (total_records = 0 \/ hist.ret = "nosample")) =>
        /\ success
        /\ hist.ret \in {"empty", "nosample"}
        /\ hist.wlog = <<>>
        /\ tgt[CurTable] = EmptyTable
        /\ hist.ckptOps = <<>>
        /\ ckptFiles = hist.ckptAtStart
        /\ stats.errors = hist.errorsAtStart

C7_Witness ==
    /\ Returned /\ success
    /\ hist.ret = "nosample"
    /\ total_records > 0
    /\ hist.wlog = <<>>
    /\ stats.errors = 0

\* C8 (as claimed): a fault-free copy of N >= 1 rows with resume enabled saves a final
\* checkpoint with processed_count = N after the last flush and before the clear.
C8_FinalCheckpointSaved ==
    (Returned /\ hist.ret = "complete" /\ enable_resume /\ NoCopyFault /\ ~hist.ioFault
        /\ SourceUnchanged /\ Count(src[CurTable]) >= 1) =>
        \E i \in SaveOps :
            /\ hist.ckptOps[i].processed_count = Count(src[CurTable])
            /\ hist.ckptOps[i].flushed = Len(hist.flushes)
            /\ \A j \in ClearOps : i < j

\* C9: with resume enabled, the j-th full-batch flush is followed by a save exactly
\* when j is a multiple of 10, and that save records the rows flushed so far, j * B.
FullFlushes == {j \in 1..Len(hist.flushes) : hist.flushes[j] = batch_size}
FullSaves == {i \in SaveOps : hist.ckptOps[i].full}

C9_PeriodicCheckpoint ==
    (enable_resume /\ pc \in {"stream", "copied"}) =>
        /\ \A j \in FullFlushes :
               (j % CheckpointEvery = 0) <=>
                   (\E i \in FullSaves : hist.ckptOps[i].flushed = j)
        /\ \A i \in FullSaves :
               /\ hist.ckptOps[i].flushed \in FullFlushes
               /\ hist.ckptOps[i].processed_count = hist.ckptOps[i].flushed * batch_size
               /\ hist.ckptOps[i].processed_count = hist.ckptOps[i].written
               /\ \A i2 \in FullSaves :
                      hist.ckptOps[i2].flushed = hist.ckptOps[i].flushed => i2 = i

C9_Witness ==
    /\ enable_resume /\ pc = "stream"
    /\ Len(hist.flushes) = 2 * CheckpointEvery + 1
    /\ Cardinality(FullSaves) = 2
    /\ \E i \in FullSaves : hist.ckptOps[i].processed_count = 2 * CheckpointEvery * batch_size


\* C10: a call of process_batch_parallel whose pool works attempts every batch exactly
\* once and returns, whatever the order in which the workers ran and finished, the
\* rows of the batches whose writes all succeeded: K * B when none fails, (K - 1) * B
\* with one failure logged when exactly one fails; no row is written or counted twice
\* and the sequential handler is not entered.
C10_ParallelCount ==
    (ppc = "returned" /\ pobs.poolFault = "none") =>
        LET good == {i \in BatchIds : failAt[i] = 0}
            K == Len(batches)
        IN
        /\ \A i \in BatchIds : pobs.attempts[i] = 1
        /\ \A i \in BatchIds : pobs.writes[i] <= batches[i]
        /\ \A i \in good : pobs.writes[i] = batches[i]
        /\ par_count = SeqSum([i \in BatchIds |-> IF i \in good THEN batches[i] ELSE 0])
        /\ pobs.logged = K - Cardinality(good)
        /\ ~pobs.fallback
        /\ (good = BatchIds /\ K > 0) => par_count = K * batches[1]
        /\ Cardinality(good) = K - 1 => (par_count = (K - 1) * batches[1] /\ pobs.logged = 1)

C10_Witness ==
    /\ ppc = "returned" /\ pobs.poolFault = "none"
    /\ Len(batches) = 3 /\ batches[1] = 2
    /\ failAt = <<0, 2, 0>>
    /\ par_count = 4
    /\ pobs.logged = 1
    /\ pobs.writes = <<2, 1, 2>>

\* C11 (as claimed): in one call of process_batch_parallel the pool's workers and the
\* sequential handler never both apply the same batch, whenever the pool-level failure
\* happens, and the returned total counts no row twice.
C11_PathsExclusive ==
    (ppc \in {"returned", "raised"}) =>
        /\ \A i \in BatchIds : pobs.attempts[i] <= 1
        /\ \A i \in BatchIds : pobs.writes[i] <= batches[i]
        /\ par_count <= SeqSum(batches)

\* C12 (as claimed): with enable_parallel set, every batch copy_table_data flushed was
\* handed to process_batch_parallel, whose pool is therefore in use once a flush was
\* made; rows are written one by one by the copy itself only when it is not set.
C12_ParallelFlushUsed ==
    (enable_parallel /\ pc \in {"stream", "copied"} /\ hist.wlog # <<>>) =>
        /\ ppc # "idle"
        /\ pobs.writes # <<>>

Validated == hist.vobs.called /\ ~hist.vobs.raised

\* C13: whenever the two counts differ the validator returns mismatch, whatever rows
\* the two tables hold (also when the first 100 rows of both are the same), and it
\* has fetched no sample.
C13_CountMismatch ==
    (Validated /\ hist.vobs.src_count # hist.vobs.tgt_count) =>
        /\ ~hist.vobs.verdict
        /\ ~hist.vobs.sampled
        /\ hist.vobs.src_sample = <<>> /\ hist.vobs.tgt_sample = <<>>
        /\ hist.validated = <<<<1, FALSE>>>>

C13_Witness ==
    /\ Validated
    /\ hist.vobs.src_count = SampleSize + 1
    /\ hist.vobs.tgt_count = SampleSize
    /\ Sample(src[1], SampleSize) = Sample(tgt[1], SampleSize)
    /\ ~hist.vobs.verdict
    /\ ~hist.vobs.sampled

\* C14 (as claimed): when the counts agree the validator returns match exactly when
\* the two samples it fetched are the same list: the same number of rows, and equal
\* rows at every position.
C14_SampleVerdict ==
    (Validated /\ hist.vobs.src_count = hist.vobs.tgt_count) =>
        (hist.vobs.verdict <=> hist.vobs.src_sample = hist.vobs.tgt_sample)

\* C15: run_backfill returns failure exactly when initialize_services failed; a run
\* whose services were initialized returns success whatever copies failed and
\* whatever the validator found, and after a failed initialization no table was
\* copied or validated and nothing was written.
C15_RunOutcome ==
    (pc = "done") =>
        /\ (runResult = "failure") <=> hist.initFailed
        /\ ~hist.initFailed => runResult = "success"
        /\ hist.initFailed =>
               /\ hist.attempted = <<>>
               /\ hist.validated = <<>>
               /\ \A t \in DOMAIN tgt : tgt[t] = EmptyTable /\ hist.res[t] = "none"
               /\ ckptFiles = hist.ckpt0
               /\ stats = [tables_processed |-> 0, records_processed |-> 0, errors |-> 0]

C15_Witness ==
    /\ pc = "done" /\ runResult = "success"
    /\ Len(tables) = 3
    /\ hist.res = <<"copied", "fail", "copied">>
    /\ stats.errors = 1 /\ stats.tables_processed = 2
    /\ hist.validated = <<<<1, TRUE>>, <<3, TRUE>>>>

\* C16 (as claimed): when run_backfill has returned, a connection is still open only
\* if its own close() raised: every connection that was opened has been closed, also
\* when the close() of the other connection failed.
C16_ConnectionsClosed ==
    (pc = "done") =>
        /\ src_service = "open" => hist.closeFault = "src"
        /\ tgt_service = "open" => hist.closeFault = "tgt"

\* C17 (as claimed): a checkpoint file that is absent or malformed in any way never
\* makes the copy fail: unless a query or a write raised, the copy returns success,
\* counts no error and, the source not changing, writes the rows it writes without
\* any checkpoint file.
Malformed(files, t) == HasCheckpoint(files, t) /\ files[t].form # "object"

C17_MalformedCheckpointHarmless ==
    (Returned /\ enable_resume /\ hist.fault \notin {"read", "write"}
        /\ (~HasCheckpoint(hist.ckptAtStart, CurTable) \/ Malformed(hist.ckptAtStart, CurTable))) =>
        /\ success
        /\ stats.errors = hist.errorsAtStart
        /\ SourceUnchanged => hist.wlog = Rows(src[CurTable])

\* C18: the checkpoint store is one last-write-wins register per table. After any
\* sequence of saves, loads and clears (no file operation failing), load_checkpoint(t)
\* yields the record of the last save of t when no clear of t followed it and None
\* otherwise; a load that was just made returned exactly that; a clear of an absent
\* file changes nothing; and the file of the other table is what its own operations
\* made of it.
C18_LastWriteWins ==
    (~hist.ioFault /\ hist.lastOp[1] # "none") =>
        /\ \A t \in StoreTables :
               hist.reg[t].known =>
                   /\ load_checkpoint(ckptFiles, t) = hist.reg[t].val
                   /\ HasCheckpoint(ckptFiles, t) <=> hist.reg[t].val # <<>>
        /\ \A t \in StoreTables :
               (\A u \in StoreTables : u # t => ~hist.reg[u].known) =>
                   \A u \in StoreTables \ {t} :
                       /\ HasCheckpoint(ckptFiles, u) = HasCheckpoint(hist.ckpt0, u)
                       /\ HasCheckpoint(ckptFiles, u) => ckptFiles[u] = hist.ckpt0[u]
        /\ (hist.lastOp[1] = "load" /\ hist.reg[hist.lastOp[2]].known) =>
               checkpoint = hist.reg[hist.lastOp[2]].val

C18_Witness ==
    /\ ~hist.ioFault
    /\ hist.ops = 3
    /\ hist.lastOp = <<"load", 1>>
    /\ HasCheckpoint(hist.ckpt0, 1) /\ hist.ckpt0[1].form = "unparsable"
    /\ HasCheckpoint(hist.ckpt0, 2) /\ ckptFiles[2] = hist.ckpt0[2]
    /\ checkpoint # <<>>
    /\ checkpoint[1].processed_count = 0
    /\ checkpoint[1].timestamp = 2

\* C19: what copy_table_data copies does not depend on the checkpoint it found. With
\* a well-formed checkpoint of any processed_count, as with none, the rows written
\* are the source's rows from the first one on, in order, the j-th flush has the size
\* the table and the batch size give it, and the copy returns success unless a query
\* or a write raised.
FlushSize(N, B, j) == Min(B, N - (j - 1) * B)

C19_CheckpointIgnored ==
    (pc \in {"stream", "copied"} /\ SourceUnchanged /\ hist.fault # "checkpoint") =>
        LET rows == Rows(src[CurTable]) IN
        /\ Len(hist.wlog) <= Len(rows)
        /\ hist.wlog = Prefix(rows, Len(hist.wlog))
        /\ \A j \in 1..Len(hist.flushes) : hist.flushes[j] = FlushSize(Len(rows), batch_size, j)
        /\ pc = "stream" => hist.wlog \o current_batch = Prefix(rows, cursor)
        /\ Returned => (success <=> NoCopyFault)
        /\ (Returned /\ NoCopyFault) => hist.wlog = rows

C19_Witness ==
    /\ Returned /\ success
    /\ checkpoint # <<>>
    /\ checkpoint[1].processed_count = 2
    /\ Count(src[CurTable]) = 3
    /\ batch_size = 2
    /\ hist.wlog = Rows(src[CurTable])
    /\ hist.flushes = <<2, 1>>

\* C20: copying an unchanged table a second time, after a first copy that succeeded
\* or one that failed part-way, leaves the target as one complete copy does: the
\* target holds the source's rows, each with the source's values, and no other row.
C20_ReprocessingSafe ==
    (Returned /\ Len(hist.attempted) = 2 /\ NoCopyFault /\ hist.mutations = 0) =>
        /\ success
        /\ tgt[CurTable] = src[CurTable]
        /\ \A k \in DOMAIN hist.tgtAtStart : hist.tgtAtStart[k] = src[CurTable][k]

C20_Witness ==
    /\ Returned /\ Len(hist.attempted) = 2 /\ success
    /\ stats.errors = 1
    /\ Count(src[CurTable]) = 3
    /\ src[CurTable][1] = 2
    /\ Count(hist.tgtAtStart) = 1
    /\ tgt[CurTable] = src[CurTable]

\* C21: the snapshot get_performance_metrics returns has records_per_second = 0 for
\* a duration of 0 and for every negative one, and record_count / duration for a
\* positive one; no division by a non-positive number is made; when a host metric
\* cannot be read the snapshot is the all-zero one; and the copy that asked for the
\* snapshot completes with success in either case.
C21_MetricsRate ==
    (metrics # <<>>) =>
        LET m == metrics[1]
            duration == clock - table_start_time
            record_count == processed_count
        IN
        /\ m.records_per_second.den > 0
        /\ hist.hostFault => m = ZeroMetrics
        /\ ~hist.hostFault =>
               /\ duration <= 0 => m.records_per_second = Ratio(0, 1)
               /\ duration > 0 => SameRatio(m.records_per_second, Ratio(record_count, duration))
               /\ m.duration_seconds = duration
               /\ m.total_records = record_count
        /\ Returned => (success /\ hist.ret = "complete" /\ stats.errors = hist.errorsAtStart)

C21_Witness ==
    /\ metrics # <<>>
    /\ ~hist.hostFault
    /\ clock = table_start_time
    /\ processed_count = 3
    /\ metrics[1].records_per_second = Ratio(0, 1)
    /\ metrics[1].total_records = 3

\* C22: the validator has no effect but its log lines. Every step out of the
\* validator, whatever its verdict and also when one of its queries raised, leaves
\* the source, the target, the counters, the checkpoint files, the run's result and
\* the shutdown flag as they were, and its return hands the loop the next table.
InValidator == pc \in {"validate", "vsample"}

C22_ValidatorFrame ==
    [][(InValidator /\ pc' # pc) =>
          /\ UNCHANGED <<src, tgt, stats, ckptFiles, runResult, running, tables>>
          /\ pc' \in {"vsample", "loop"}
          /\ pc' = "loop" => idx' = idx + 1]_vars

C22_Witness ==
    /\ pc = "done" /\ runResult = "success"
    /\ Len(tables) = 3
    /\ hist.validated = <<<<1, FALSE>>, <<2, TRUE>>, <<3, TRUE>>>>
    /\ stats = [tables_processed |-> 3, records_processed |-> 3, errors |-> 0]
    /\ \A t \in 1..3 : Count(tgt[t]) = 1

\* C23: the tables are taken one at a time in list order. The copies started so
\* far are the first tables of the list, in order; while a table is being copied or
\* validated it is the last one started, and a new copy starts only from the head
\* of the loop, when every earlier table is finished. The validator has run exactly
\* once, in list order, for each finished table whose copy returned success, and
\* for no other.
InTable == pc \in {"count", "sample", "stream", "copied", "validate", "vsample"}

CopySucceeded(t) == hist.res[t] \in {"copied", "nothing"}

FinishedTables == SubSeq(tables, 1, Min(idx - 1, Len(tables)))

C23_OneTableAtATime ==
    /\ Len(hist.attempted) <= Len(tables)
    /\ \A i \in 1..Len(hist.attempted) : hist.attempted[i] = tables[i]
    /\ InTable => Len(hist.attempted) = idx
    /\ pc \in {"loop", "done"} => Len(hist.attempted) = idx - 1
    /\ InValidator => success /\ CopySucceeded(CurTable)
    /\ [i \in 1..Len(hist.validated) |-> hist.validated[i][1]]
           = SelectSeq(FinishedTables, CopySucceeded)

C23_Witness ==
    /\ pc = "validate" /\ idx = 3
    /\ hist.attempted = <<1, 2, 3>>
    /\ hist.res = <<"copied", "fail", "nothing">>
    /\ hist.validated = <<<<1, TRUE>>>>

\* C24: while a table is streamed, and after its copy returned, the batch in
\* memory never holds more than B rows, and fewer than B between two rows of the
\* stream: the flush is made by the row that fills the batch and leaves it empty.
\* The batch is the rows read since the last flush, in stream order; every flush
\* made while the stream is open has exactly B rows, and only the last flush of a
\* copy can have fewer (at least one).
Streaming == pc = "stream"

C24_BatchBounded ==
    (pc \in {"stream", "copied"} /\ hist.ret \notin {"empty", "nosample"}) =>
        LET B == batch_size
            F == hist.flushes
        IN
        /\ Len(current_batch) <= B
        /\ Streaming => Len(current_batch) < B
        /\ \A j \in 1..Len(F) : 1 <= F[j] /\ F[j] <= B
        /\ \A j \in 1..(Len(F) - 1) : F[j] = B
        /\ Streaming => \A j \in 1..Len(F) : F[j] = B
        /\ processed_count = SeqSum(F)
        /\ batch_num = Len(F)
        /\ Streaming => cursor = processed_count + Len(current_batch)
        /\ (Streaming /\ SourceUnchanged) =>
               current_batch = SubSeq(Rows(src[CurTable]), processed_count + 1, cursor)

C24_Witness ==
    /\ Streaming /\ SourceUnchanged
    /\ batch_size = 2
    /\ hist.flushes = <<2, 2>>
    /\ cursor = 5
    /\ current_batch = <<<<5, 1>>>>

\* C25: a checkpoint saved by a copy never overstates its progress. Every call of
\* save_checkpoint made by the copy passes the number of rows the copy had written
\* to the target at that moment; the rows written only grow, so whatever happens
\* later (a write that raises, the end of the process) the file the copy stored
\* holds a processed_count that is at most the number of rows the copy wrote.
StoredSaves == {i \in SaveOps : hist.ckptOps[i].stored}

C25_CheckpointNotAhead ==
    (pc \in {"stream", "copied"}) =>
        LET t == CurTable
            written == Len(hist.wlog)
        IN
        /\ \A i \in SaveOps :
               /\ hist.ckptOps[i].processed_count = hist.ckptOps[i].written
               /\ hist.ckptOps[i].processed_count <= written
               /\ \A j \in SaveOps :
                      j < i => hist.ckptOps[j].processed_count < hist.ckptOps[i].processed_count
        /\ (StoredSaves # {} /\ HasCheckpoint(ckptFiles, t)) =>
               /\ ckptFiles[t].processed_count <= written
               /\ \E i \in StoredSaves :
                      ckptFiles[t].processed_count = hist.ckptOps[i].processed_count
        /\ (StoredSaves # {} /\ ~success /\ Returned) => HasCheckpoint(ckptFiles, t)

C25_Witness ==
    /\ Returned /\ ~success /\ hist.fault = "write"
    /\ batch_size = 1
    /\ StoredSaves # {}
    /\ HasCheckpoint(ckptFiles, CurTable)
    /\ ckptFiles[CurTable].processed_count = 10
    /\ Len(hist.wlog) = 14
    /\ Count(tgt[CurTable]) = 14

\* What the counters do hold between two tables: errors counts the copies that
\* returned failure, tables_processed the copies that ran to completion; a copy
\* that returned early on an empty table is in neither.
CopiesWith(results) == Cardinality({i \in 1..Len(hist.attempted) : hist.res[hist.attempted[i]] \in results})

StatsCountCompletedCopies ==
    (pc \in {"loop", "done"}) =>
        /\ stats.errors = CopiesWith({"fail"})
        /\ stats.tables_processed = CopiesWith({"copied"})

\* C26 (as claimed): between two tables and at the end of a run, every table the
\* copy was invoked on is counted exactly once: tables_processed is the number of
\* copies that returned success, an empty table's included, errors the number of
\* copies that returned failure, and the two add up to the number of copies made.
C26_EveryTableCounted ==
    (pc \in {"loop", "done"}) =>
        /\ stats.tables_processed = CopiesWith({"copied", "nothing"})
        /\ stats.errors = CopiesWith({"fail"})
        /\ stats.tables_processed + stats.errors = Len(hist.attempted)

====
